---- MODULE Spec2Model ----
(***************************************************************************)
(* State-machine model of the Fudicia browser client.                      *)
(*                                                                         *)
(* The router mounts one page at a time (main.tsx); `page` is the mounted  *)
(* page and the remaining variables are that page's React state, the       *)
(* WebSocket objects it created and the HTTP requests it has in flight.    *)
(* Every action is one run of an event handler (a user action, a socket    *)
(* event, the completion of a fetch or a timer) followed by the render it  *)
(* causes and the effects whose dependencies that render changed.          *)
(***************************************************************************)
EXTENDS Integers, Sequences, FiniteSets, TLC

VARIABLES
    page,                \* the mounted page
    isSubmitting,        \* useState of the mounted page
    showStreamingPanel,  \* useState of the mounted page
    sockets,             \* the WebSocket objects of the page that are not closed
    created,             \* how many WebSocket objects the page has created
    notices,             \* what the handler that ran last showed the user
    \* ---- SourcingAgent (the wizard)
    currentStep,
    completedSteps,
    showAccordionStep,
    filterResponse,
    screeningResponse,
    riskAnalysisResponse,
    reportResponse,
    reportFilePath,
    selectedSourcingKeys,
    selectedScreeningKeys,
    selectedRiskAnalysisKeys,
    selectedCompanies,
    streamedEventsByStep,
    aggregatedThinkingByStep,
    lastProcessedStreamingCountByStep,
    \* ---- FundMandate
    selectedFile,
    description,
    errors,
    isAnalyzing,
    pendingSubmitData,
    capabilitiesLoading,
    capabilitiesResult,
    subprocesses,
    capabilityParams,
    showCapabilitiesModal,
    showAccordion,
    isSubmitted,
    parsedResult,
    apiError,
    streamingEvents,
    aggregatedThinking,
    lastProcessedStreamingCount,
    requests,            \* handleSubmit / proceedWithNormalFlow calls at an await
    \* ---- Dashboard
    stats,
    loading,
    \* ---- Agent (the chat)
    query,
    isLoading,
    messages,
    settled,             \* how the sendMessage promise awaited last settled
    \* ---- one row of the risk table (SourcingAgent's render helpers)
    company,             \* the company object the row is rendered for
    riskScores,          \* what getRiskScores returned for it
    overall,             \* what getOverall returned for it
    \* ---- AgentThinkingAccordion (one mounted instance)
    accordionThinking,   \* the aggregatedThinking prop
    groupedThinking,     \* useMemo over the prop
    expandedGroupIndex,  \* useState, -1 for null
    \* ---- history
    cleared              \* the steps a reset cleared, until a run of the step is started

socketVars == <<sockets, created>>

commonVars == <<isSubmitting, showStreamingPanel, socketVars, notices>>

resultVars == <<filterResponse, screeningResponse, riskAnalysisResponse,
                reportResponse, reportFilePath>>

selectionVars == <<selectedSourcingKeys, selectedScreeningKeys,
                   selectedRiskAnalysisKeys, selectedCompanies>>

streamVars == <<streamedEventsByStep, aggregatedThinkingByStep,
                lastProcessedStreamingCountByStep>>

wizardVars == <<currentStep, completedSteps, showAccordionStep, resultVars,
                selectionVars, streamVars>>

formVars == <<selectedFile, description, errors>>

capabilityVars == <<isAnalyzing, pendingSubmitData, capabilitiesLoading,
                    capabilitiesResult, subprocesses, capabilityParams,
                    showCapabilitiesModal>>

parseVars == <<showAccordion, isSubmitted, parsedResult, apiError, streamingEvents,
               aggregatedThinking, lastProcessedStreamingCount>>

mandateVars == <<formVars, capabilityVars, parseVars, requests>>

dashboardVars == <<stats, loading>>

agentVars == <<query, isLoading, messages, settled>>

rowVars == <<company, riskScores, overall>>

accordionVars == <<accordionThinking, groupedThinking, expandedGroupIndex>>

componentVars == <<rowVars, accordionVars>>

otherPages == <<dashboardVars, agentVars, componentVars, cleared>>

outsideWizard == <<page, mandateVars, otherPages>>

\* what a reset and the start of a run leave alone outside the wizard
outsideRun == <<page, mandateVars, dashboardVars, agentVars, componentVars>>

vars == <<page, commonVars, wizardVars, mandateVars, otherPages>>

(***************************************************************************)
(* Bounds of the model.                                                    *)
(***************************************************************************)
\* WebSocket objects that are open or closing at the same time
MaxSockets == 2
\* WebSocket objects the page creates
MaxCreated == 4
\* timers and HTTP requests of the mandate page pending at the same time
MaxRequests == 1
\* messages of the chat, the greeting included
MaxMessages == 7
\* events held in the event list of one step
MaxEvents == 2
\* items of the list an accordion is given
MaxItems == 4

Steps == 0..3

(***************************************************************************)
(* Values.  A step result and an event payload are records: present is     *)
(* FALSE for null / a missing field, details says whether the array the    *)
(* page reads from it (company_details, file_path) is there, n is the      *)
(* length of that array.                                                   *)
(***************************************************************************)
NULL == [present |-> FALSE, details |-> FALSE, n |-> 0]

WithCompanies(n) == [present |-> TRUE, details |-> TRUE, n |-> n]

WithoutDetails == [present |-> TRUE, details |-> FALSE, n |-> 0]

\* reportFilePath: eventData.file_path || null
NoPath == "null"

SourcingKeys == {"s1"}

ScreeningKeys == {"c1"}

RiskAnalysisKeys == {"r1"}

\* row indexes of the sourced-companies table
CompanyIndexes == {0}

\* FundMandate: no error message, no file, no capabilities document
NoError == "undefined"

NoFile == [type |-> "null", size |-> 0]

NoData == "null"

\* import mockCapabilities from '../data/mock.json': the bundled capabilities
\* document
mockCapabilities == "mock"

\* Agent: the message the chat starts with
Greeting == [role |-> "assistant", content |-> <<"hello">>]

(***************************************************************************)
(* Event text.  A string is a sequence of character classes: "w" a word    *)
(* character, "sp" white space, "sym" a character that is neither, "emo"   *)
(* a character of the emoji ranges, "STEP" the text `STEP 1:`.  "obj" is   *)
(* a content that is not a string (an object).                             *)
(***************************************************************************)
RECURSIVE DropLeading(_, _)
DropLeading(s, cls) ==
    IF s # <<>> /\ Head(s) \in cls THEN DropLeading(Tail(s), cls) ELSE s

RECURSIVE DropTrailing(_, _)
DropTrailing(s, cls) ==
    IF s # <<>> /\ s[Len(s)] \in cls
    THEN DropTrailing(SubSeq(s, 1, Len(s) - 1), cls)
    ELSE s

IsEmoji(t) == t = "emo"

NotEmoji(t) == ~IsEmoji(t)

Trim(s) == DropTrailing(DropLeading(s, {"sp"}), {"sp"})

\* content.replace(/^[^\w\s]*\s*/g, '').replace(/^STEP\s*\d+:\s*/i, '')
\*        .replace(<emoji ranges>/gu, '').trim()
CleanText(s) ==
    LET noPrefix == DropLeading(DropLeading(s, {"sym", "emo"}), {"sp"})
        noStep   == IF noPrefix # <<>> /\ Head(noPrefix) = "STEP"
                    THEN DropLeading(Tail(noPrefix), {"sp"})
                    ELSE noPrefix
    IN  Trim(SelectSeq(noStep, NotEmoji))

IsStringContent(c) == \A i \in 1..Len(c) : c[i] # "obj"

\* one event of the stream as the aggregation effect maps it
CleanEvent(e) ==
    LET content == IF e.content # <<>> THEN e.content ELSE e.message
        clean   == IF IsStringContent(content) THEN CleanText(content) ELSE content
    IN  [type    |-> IF e.type = "" THEN "agent_thinking" ELSE e.type,
         content |-> clean]

HasContent(item) == item.content # <<>>

\* newEvents.map(...).filter(Boolean)
NewEventData(events) ==
    SelectSeq([i \in 1..Len(events) |-> CleanEvent(events[i])], HasContent)

\* the body of the aggregation effect for `step`
AggregationEffect(step, events, agg, last) ==
    IF Len(events[step]) = 0
    THEN [agg  |-> [agg EXCEPT ![step] = <<>>],
          last |-> [last EXCEPT ![step] = 0]]
    ELSE IF Len(events[step]) > last[step]
    THEN [agg  |-> [agg EXCEPT ![step] =
                       @ \o NewEventData(SubSeq(events[step], last[step] + 1,
                                                Len(events[step])))],
          last |-> [last EXCEPT ![step] = Len(events[step])]]
    ELSE [agg |-> agg, last |-> last]

\* The render after a handler of the wizard: the new step and streams are
\* committed, and the aggregation effect runs when one of its dependencies
\* (streamedEventsByStep[currentStep], currentStep) changed.  `replaced` is
\* the set of steps whose event array the handler replaced.
Render(newStep, newEvents, replaced) ==
    LET after == IF newStep # currentStep \/ newStep \in replaced
                 THEN AggregationEffect(newStep, newEvents,
                                        aggregatedThinkingByStep,
                                        lastProcessedStreamingCountByStep)
                 ELSE [agg  |-> aggregatedThinkingByStep,
                       last |-> lastProcessedStreamingCountByStep]
    IN  /\ currentStep' = newStep
        /\ streamedEventsByStep' = newEvents
        /\ aggregatedThinkingByStep' = after.agg
        /\ lastProcessedStreamingCountByStep' = after.last

(***************************************************************************)
(* WebSocket objects.  A slot holds no socket ("none"), an "open" one      *)
(* (connecting or open: the server may send, fail or close) or a "closing" *)
(* one (the page called close(): no message event is delivered any more,   *)
(* the close event is still to come).  The close event frees the slot.     *)
(***************************************************************************)
SocketIds == 1..MaxSockets

NoSocket == [kind |-> "none", state |-> "none"]

FreeSlots == {s \in SocketIds : sockets[s].state = "none"}

NewSocketId == CHOOSE s \in FreeSlots : \A t \in FreeSlots : s <= t

CanCreate == FreeSlots # {} /\ created < MaxCreated

CanReceive(s, kind) ==
    /\ sockets[s].kind = kind
    /\ sockets[s].state = "open"

CanFail(s, kind) ==
    /\ sockets[s].kind = kind
    /\ sockets[s].state = "open"

CanClose(s, kind) ==
    /\ sockets[s].kind = kind
    /\ sockets[s].state \in {"open", "closing"}

\* new WebSocket(url)
Created(kind) ==
    /\ sockets' = [sockets EXCEPT ![NewSocketId] = [kind |-> kind, state |-> "open"]]
    /\ created' = created + 1

\* a message handler that leaves out ws.close()
ClosingOmitted(s) == UNCHANGED socketVars

\* ws.close()
Closing(s) ==
    /\ sockets' = [sockets EXCEPT ![s].state = "closing"]
    /\ UNCHANGED created

\* the close event was delivered
Released(s) ==
    /\ sockets' = [sockets EXCEPT ![s] = NoSocket]
    /\ UNCHANGED created

(***************************************************************************)
(* The events a server may send.                                           *)
(***************************************************************************)
ThinkingEvent ==
    [type |-> "agent_thinking", content |-> <<"emo", "sp", "w">>,
     message |-> <<>>, payload |-> NULL]

\* a completion event with its result in `payload` (result / results / file_path)
CompletionEvent(type, payload) ==
    [type |-> type, content |-> <<>>, message |-> <<"STEP", "sp", "w">>,
     payload |-> payload]

\* final_result carries its result in `content`
FinalResultEvent(payload) ==
    [type |-> "final_result",
     content |-> IF payload.present THEN <<"obj">> ELSE <<>>,
     message |-> <<>>, payload |-> payload]

\* a results field that is not an array
Malformed == WithoutDetails

\* completion events, with and without a result
ResultEvents ==
    [sourcing  |-> {CompletionEvent("analysis_complete", p) :
                       p \in {NULL, WithCompanies(1)}},
     screening |-> {FinalResultEvent(p) :
                       p \in {NULL, WithCompanies(0), WithCompanies(1)}},
     risk      |-> {CompletionEvent("session_complete", p) :
                       p \in {NULL, Malformed, WithCompanies(0), WithCompanies(1)}},
     report    |-> {CompletionEvent("report_complete", p) :
                       p \in {WithoutDetails, WithCompanies(0)}},
     parse     |-> {CompletionEvent("analysis_complete", p) :
                       p \in {NULL, WithCompanies(0)}}]

\* progress events and a completion event with its result
ProgressEvents ==
    [sourcing  |-> {ThinkingEvent,
                    CompletionEvent("analysis_complete", WithCompanies(1))},
     screening |-> {ThinkingEvent, FinalResultEvent(WithCompanies(1))},
     risk      |-> {ThinkingEvent,
                    CompletionEvent("session_complete", WithCompanies(1))},
     report    |-> {ThinkingEvent,
                    CompletionEvent("report_complete", WithCompanies(0))},
     parse     |-> {ThinkingEvent,
                    CompletionEvent("analysis_complete", WithCompanies(0))}]

\* the fields of an event that the page reads back from an event list
Stored(e) == [type |-> e.type, content |-> e.content, message |-> e.message]

(***************************************************************************)
(* JavaScript values of the risk table.  A value carries its type in t; a  *)
(* string its text in s, an array its elements in items, an object its     *)
(* own properties, in the order Object.entries lists them, in entries.     *)
(***************************************************************************)
JsUndefined == [t |-> "undefined"]

JsNull == [t |-> "null"]

Str(text) == [t |-> "string", s |-> text]

Arr(elements) == [t |-> "array", items |-> elements]

Obj(properties) == [t |-> "object", entries |-> properties]

\* o.name and o?.name for the property names the helpers read
Get(o, name) ==
    IF o.t = "object" /\ \E i \in 1..Len(o.entries) : o.entries[i].k = name
    THEN o.entries[CHOOSE i \in 1..Len(o.entries) : o.entries[i].k = name].v
    ELSE JsUndefined

\* ToBoolean
Truthy(x) ==
    /\ x.t \notin {"undefined", "null"}
    /\ ~(x.t = "string" /\ x.s = "")

\* a || b
Or(a, b) == IF Truthy(a) THEN a ELSE b

\* a ?? b
Nullish(a, b) == IF a.t \in {"undefined", "null"} THEN b ELSE a

\* Object.entries(x)
Entries(x) ==
    CASE x.t = "object" -> x.entries
      [] x.t = "array" -> [i \in 1..Len(x.items) |->
                              [k |-> ToString(i - 1), v |-> x.items[i]]]
      [] OTHER -> <<>>

\* the risk row with || where the code has ??
getRiskScoresByTruth(c) ==
    IF ~Truthy(c)
    THEN Arr(<<>>)
    ELSE IF Get(c, "risk_scores").t = "array"
            /\ Len(Get(c, "risk_scores").items) > 0
    THEN Get(c, "risk_scores")
    ELSE LET pa == Or(Or(Get(c, "parameter_analysis"),
                         Get(c, "parameterAnalysis")), Obj(<<>>))
             es == Entries(Or(pa, Obj(<<>>)))
         IN  Arr([i \in 1..Len(es) |->
                 Obj(<<[k |-> "category", v |-> Str(es[i].k)],
                       [k |-> "status",
                        v |-> Or(Or(Or(Get(es[i].v, "status"),
                                       Get(es[i].v, "Status")),
                                    Get(es[i].v, "status_text")), Str(""))],
                       [k |-> "reason",
                        v |-> Or(Or(Or(Get(es[i].v, "reason"),
                                       Get(es[i].v, "Reason")),
                                    Get(es[i].v, "reason_text")), Str(""))]>>)])

getRiskScores(c) ==
    IF ~Truthy(c)
    THEN Arr(<<>>)
    ELSE IF Get(c, "risk_scores").t = "array"
            /\ Len(Get(c, "risk_scores").items) > 0
    THEN Get(c, "risk_scores")
    ELSE LET pa == Or(Or(Get(c, "parameter_analysis"),
                         Get(c, "parameterAnalysis")), Obj(<<>>))
             es == Entries(Or(pa, Obj(<<>>)))
         IN  Arr([i \in 1..Len(es) |->
                 Obj(<<[k |-> "category", v |-> Str(es[i].k)],
                       [k |-> "status",
                        v |-> Nullish(Nullish(Nullish(
                                  Get(es[i].v, "status"),
                                  Get(es[i].v, "Status")),
                                  Get(es[i].v, "status_text")), Str(""))],
                       [k |-> "reason",
                        v |-> Nullish(Nullish(Nullish(
                                  Get(es[i].v, "reason"),
                                  Get(es[i].v, "Reason")),
                                  Get(es[i].v, "reason_text")), Str(""))]>>)])

getOverall(c) ==
    Or(Or(Or(Or(Or(Get(c, "overall_result"), Get(c, "overallResult")),
                Get(c, "overall_status")), Get(c, "overallStatus")),
          Get(c, "overall")), Str(""))

\* the object with the properties of `names` that f defines, in that order
Object(names, f) ==
    Obj(SelectSeq([i \in 1..Len(names) |-> [k |-> names[i], v |-> f[names[i]]]],
                  LAMBDA e : e.v # JsUndefined))

AnalysisFields ==
    <<"status", "Status", "status_text", "reason", "Reason", "reason_text">>

\* the value the server gives one category of parameter_analysis
Analyses ==
    {JsNull, Str("text")} \cup
    {Object(AnalysisFields, f) :
        f \in [status : {JsUndefined, JsNull, Str(""), Str("a")},
               Status : {JsUndefined, Str("b")},
               status_text : {JsUndefined, Str("c")},
               reason : {JsUndefined, Str("")},
               Reason : {JsUndefined, JsNull},
               reason_text : {JsUndefined, Str("f")}]}

ParameterAnalyses ==
    {JsUndefined, JsNull, Obj(<<>>), Arr(<<Str("text")>>),
     Obj(<<[k |-> "financial", v |-> Object(AnalysisFields, [status |-> Str("a"),
               Status |-> JsUndefined, status_text |-> JsUndefined,
               reason |-> JsUndefined, Reason |-> JsUndefined,
               reason_text |-> Str("f")])],
           [k |-> "legal", v |-> JsNull]>>)} \cup
    {Obj(<<[k |-> "financial", v |-> a]>>) : a \in Analyses}

RiskScoreLists ==
    {JsUndefined, JsNull, Str("none"), Arr(<<>>),
     Arr(<<Obj(<<[k |-> "category", v |-> Str("esg")],
                 [k |-> "status", v |-> Str("WARN")],
                 [k |-> "reason", v |-> JsNull]>>)>>)}

CompanyFields ==
    <<"risk_scores", "parameter_analysis", "parameterAnalysis", "overall_result",
      "overallResult", "overall_status", "overallStatus", "overall">>

\* the company objects of all_companies, and a missing one
Companies ==
    {JsNull, JsUndefined} \cup
    {Object(CompanyFields, f) :
        f \in [risk_scores : RiskScoreLists,
               parameter_analysis : ParameterAnalyses,
               parameterAnalysis : {JsUndefined,
                                    Obj(<<[k |-> "market", v |-> Str("text")]>>)},
               overall_result : {Str("SAFE")},
               overallResult : {JsUndefined},
               overall_status : {JsUndefined},
               overallStatus : {JsUndefined},
               overall : {JsUndefined}]
           \cup
              [risk_scores : {JsUndefined},
               parameter_analysis : {JsUndefined},
               parameterAnalysis : {JsUndefined},
               overall_result : {JsUndefined, JsNull, Str(""), Str("SAFE")},
               overallResult : {JsUndefined, Str(""), Str("WARN")},
               overall_status : {JsUndefined, Str(""), Str("UNSAFE")},
               overallStatus : {JsUndefined, Str(""), Str("RISK")},
               overall : {JsUndefined, Str(""), Str("WARNING")}]}

(***************************************************************************)
(* Initial state.                                                          *)
(***************************************************************************)
\* main.tsx routes Dashboard, FundMandate and SourcingAgent; it imports Agent
\* without a route, and Agent is modelled as a page mounted on its own
Pages == {"wizard", "mandate", "dashboard", "agent"}

PageInit ==
    /\ page \in Pages
    /\ isSubmitting = FALSE
    /\ showStreamingPanel = FALSE
    /\ sockets = [s \in SocketIds |-> NoSocket]
    /\ created = 0
    /\ notices = {}
    /\ currentStep = 0
    /\ completedSteps = {}
    /\ showAccordionStep = -1
    /\ filterResponse = NULL
    /\ screeningResponse = NULL
    /\ riskAnalysisResponse = NULL
    /\ reportResponse = NULL
    /\ reportFilePath = NoPath
    /\ selectedSourcingKeys = SourcingKeys
    /\ selectedScreeningKeys = ScreeningKeys
    /\ selectedRiskAnalysisKeys = RiskAnalysisKeys
    /\ selectedCompanies = {}
    /\ streamedEventsByStep = [k \in Steps |-> <<>>]
    /\ aggregatedThinkingByStep = [k \in Steps |-> <<>>]
    /\ lastProcessedStreamingCountByStep = [k \in Steps |-> 0]
    /\ selectedFile = NoFile
    /\ description = <<>>
    /\ errors = [file |-> NoError, description |-> NoError]
    /\ isAnalyzing = FALSE
    /\ pendingSubmitData = [file |-> NoFile, description |-> <<>>]
    /\ capabilitiesLoading = FALSE
    /\ capabilitiesResult = NoData
    /\ subprocesses = NoData
    /\ capabilityParams = NoData
    /\ showCapabilitiesModal = FALSE
    /\ showAccordion = FALSE
    /\ isSubmitted = FALSE
    /\ parsedResult = NULL
    /\ apiError = NoError
    /\ streamingEvents = <<>>
    /\ aggregatedThinking = <<>>
    /\ lastProcessedStreamingCount = 0
    /\ requests = [analyzing |-> 0, fetching |-> 0, uploading |-> 0,
                   stats |-> IF page = "dashboard" THEN 1 ELSE 0, chat |-> 0]
    /\ stats = NoData
    /\ loading = TRUE
    /\ query = <<>>
    /\ isLoading = FALSE
    /\ messages = <<Greeting>>
    /\ settled = [rejected |-> FALSE, value |-> JsUndefined]

\* no row of the risk table is on screen before a risk analysis has answered
RowIdle ==
    /\ company = JsUndefined
    /\ riskScores = JsUndefined
    /\ overall = JsUndefined

\* an accordion that is mounted over an empty list
AccordionIdle ==
    /\ accordionThinking = <<>>
    /\ groupedThinking = <<>>
    /\ expandedGroupIndex = -1

\* the history is recorded from ResetInit only
HistoryIdle == cleared = [recorded |-> FALSE, steps |-> {}]

Init == PageInit /\ RowIdle /\ AccordionIdle /\ HistoryIdle

\* the history with `steps` for its steps
Recorded(steps) == IF cleared.recorded THEN [cleared EXCEPT !.steps = steps] ELSE cleared

Shows(shown) == notices' = shown

OnWizard == page = "wizard"

(***************************************************************************)
(* SourcingAgent: selections.                                              *)
(***************************************************************************)
Toggle(set, key) == IF key \in set THEN set \ {key} ELSE set \cup {key}

\* filterResponse.companies.qualified.filter((_, index) => selectedCompanies[index])
getSelectedCompanyList ==
    IF filterResponse.present
    THEN {i \in selectedCompanies : i < filterResponse.n}
    ELSE {}

toggleCompanySelect(index) ==
    /\ OnWizard
    /\ currentStep = 1
    /\ filterResponse.present
    /\ index < filterResponse.n
    /\ selectedCompanies' = Toggle(selectedCompanies, index)
    /\ Shows({})
    /\ UNCHANGED <<outsideWizard, isSubmitting, showStreamingPanel, socketVars, currentStep,
                   completedSteps, showAccordionStep, resultVars,
                   selectedSourcingKeys, selectedScreeningKeys,
                   selectedRiskAnalysisKeys, streamVars>>

onSelectAll(checked) ==
    /\ OnWizard
    /\ currentStep = 1
    /\ filterResponse.present
    /\ selectedCompanies' = IF checked THEN 0..(filterResponse.n - 1) ELSE {}
    /\ Shows({})
    /\ UNCHANGED <<outsideWizard, isSubmitting, showStreamingPanel, socketVars, currentStep,
                   completedSteps, showAccordionStep, resultVars,
                   selectedSourcingKeys, selectedScreeningKeys,
                   selectedRiskAnalysisKeys, streamVars>>

(***************************************************************************)
(* SourcingAgent: step gating and navigation.                              *)
(***************************************************************************)
canProceedStep ==
    CASE currentStep = 0 -> filterResponse.present /\ filterResponse.n > 0
      [] currentStep = 1 -> screeningResponse.details /\ screeningResponse.n > 0
      [] currentStep = 2 -> riskAnalysisResponse.present /\ riskAnalysisResponse.n > 0
      [] OTHER -> TRUE

canNavigateToStep(index) ==
    CASE index = 0 -> TRUE
      [] index = 1 -> SourcingKeys # {} /\ filterResponse.present
      [] index = 2 -> ScreeningKeys # {} /\ screeningResponse.details
      [] index = 3 -> RiskAnalysisKeys # {} /\ riskAnalysisResponse.present
      [] OTHER -> FALSE

\* the footer button of the current step is the Next button and is enabled
NextButtonEnabled ==
    CASE currentStep = 0 -> filterResponse.present /\ ~isSubmitting
      [] currentStep = 1 -> screeningResponse.present /\ ~isSubmitting
      [] currentStep = 2 -> RiskAnalysisKeys # {} /\ riskAnalysisResponse.present
                            /\ riskAnalysisResponse.n > 0
      [] OTHER -> FALSE

\* a Next button that does not ask canProceedStep
nextStepUnchecked ==
    /\ OnWizard
    /\ NextButtonEnabled
    /\ IF currentStep < 3
       THEN /\ showStreamingPanel' = FALSE
            /\ Render(currentStep + 1, streamedEventsByStep, {})
       ELSE UNCHANGED <<showStreamingPanel, currentStep, streamVars>>
    /\ Shows({})
    /\ UNCHANGED <<outsideWizard, isSubmitting, socketVars, completedSteps, showAccordionStep,
                   resultVars, selectionVars>>

nextStep ==
    /\ OnWizard
    /\ NextButtonEnabled
    /\ IF canProceedStep /\ currentStep < 3
       THEN /\ showStreamingPanel' = FALSE
            /\ Render(currentStep + 1, streamedEventsByStep, {})
       ELSE UNCHANGED <<showStreamingPanel, currentStep, streamVars>>
    /\ Shows({})
    /\ UNCHANGED <<outsideWizard, isSubmitting, socketVars, completedSteps, showAccordionStep,
                   resultVars, selectionVars>>

prevStep ==
    /\ OnWizard
    /\ currentStep > 0
    /\ showStreamingPanel' = FALSE
    /\ Render(currentStep - 1, streamedEventsByStep, {})
    /\ Shows({})
    /\ UNCHANGED <<outsideWizard, isSubmitting, socketVars, completedSteps, showAccordionStep,
                   resultVars, selectionVars>>

\* a header button that empties the event list of the step it leaves
headerClickClearing(index) ==
    /\ OnWizard
    /\ canNavigateToStep(index)
    /\ showAccordionStep' = -1
    /\ Render(index, [streamedEventsByStep EXCEPT ![currentStep] = <<>>], {})
    /\ Shows({})
    /\ UNCHANGED <<outsideWizard, isSubmitting, showStreamingPanel, socketVars, completedSteps,
                   resultVars, selectionVars>>

\* the wizard step header button
headerClick(index) ==
    /\ OnWizard
    /\ canNavigateToStep(index)
    /\ showAccordionStep' = -1
    /\ Render(index, streamedEventsByStep, {})
    /\ Shows({})
    /\ UNCHANGED <<outsideWizard, isSubmitting, showStreamingPanel, socketVars, completedSteps,
                   resultVars, selectionVars>>

\* "Go back to Step 1" / "Go back to Step 2", shown in place of a step whose
\* predecessor has no result
goBackToStep ==
    /\ OnWizard
    /\ \/ currentStep = 1 /\ ~filterResponse.present
       \/ currentStep = 2 /\ ~(screeningResponse.details /\ screeningResponse.n > 0)
    /\ Render(currentStep - 1, streamedEventsByStep, {})
    /\ Shows({})
    /\ UNCHANGED <<outsideWizard, isSubmitting, showStreamingPanel, socketVars, completedSteps,
                   showAccordionStep, resultVars, selectionVars>>

(***************************************************************************)
(* SourcingAgent: resets.                                                  *)
(***************************************************************************)
\* the reset button of step `index` is on screen
ResetButtonShown(index) ==
    /\ currentStep = index
    /\ CASE index = 0 -> TRUE
         [] index = 1 -> filterResponse.present
         [] index = 2 -> screeningResponse.details /\ screeningResponse.n > 0
         [] OTHER -> FALSE

\* a reset that clears every step whatever the index is
handleResetEveryStep(index) ==
    /\ OnWizard
    /\ ResetButtonShown(index)
    /\ filterResponse' = NULL
    /\ screeningResponse' = NULL
    /\ riskAnalysisResponse' = NULL
    /\ reportResponse' = NULL
    /\ reportFilePath' = NoPath
    /\ isSubmitting' = FALSE
    /\ showStreamingPanel' = FALSE
    /\ selectedCompanies' = {}
    /\ completedSteps' = {}
    /\ showAccordionStep' = -1
    /\ Render(index, [k \in Steps |-> <<>>], Steps)
    /\ Shows({})
    /\ cleared' = Recorded(Steps)
    /\ UNCHANGED <<outsideRun, socketVars, selectedSourcingKeys, selectedScreeningKeys,
                   selectedRiskAnalysisKeys>>

handleResetStep(index) ==
    /\ OnWizard
    /\ ResetButtonShown(index)
    /\ filterResponse' = IF index = 0 THEN NULL ELSE filterResponse
    /\ screeningResponse' = IF index <= 1 THEN NULL ELSE screeningResponse
    /\ riskAnalysisResponse' = NULL
    /\ reportResponse' = NULL
    /\ reportFilePath' = NoPath
    /\ isSubmitting' = IF index = 0 THEN FALSE ELSE isSubmitting
    /\ showStreamingPanel' = FALSE
    /\ selectedCompanies' = IF index <= 1 THEN {} ELSE selectedCompanies
    /\ completedSteps' = completedSteps \ index..3
    /\ showAccordionStep' = -1
    /\ Render(index,
              [k \in Steps |-> IF k >= index THEN <<>> ELSE streamedEventsByStep[k]],
              index..3)
    /\ Shows({})
    /\ cleared' = Recorded(cleared.steps \cup index..3)
    /\ UNCHANGED <<outsideRun, socketVars, selectedSourcingKeys, selectedScreeningKeys,
                   selectedRiskAnalysisKeys>>

\* the "Try Again" button under an empty risk result
resetRiskAnalysis ==
    /\ OnWizard
    /\ currentStep = 2
    /\ screeningResponse.details /\ screeningResponse.n > 0
    /\ RiskAnalysisKeys # {}
    /\ riskAnalysisResponse.present /\ riskAnalysisResponse.n = 0
    /\ riskAnalysisResponse' = NULL
    /\ Shows({})
    /\ UNCHANGED <<outsideWizard, isSubmitting, showStreamingPanel, socketVars, currentStep,
                   completedSteps, showAccordionStep, filterResponse,
                   screeningResponse, reportResponse, reportFilePath,
                   selectionVars, streamVars>>

(***************************************************************************)
(* SourcingAgent: starting a run.  A handler is reachable through its      *)
(* footer button, which is rendered for one step and disabled while        *)
(* isSubmitting or while its selection is empty.  `thrown` says whether    *)
(* the try block threw before the socket was created.                      *)
(***************************************************************************)
\* a refusal that has already raised the loading flag
RefusedWhileSubmitting ==
    /\ Shows({"toast.error"})
    /\ isSubmitting' = TRUE
    /\ UNCHANGED <<outsideWizard, showStreamingPanel, socketVars, wizardVars>>

Refused ==
    /\ Shows({"toast.error"})
    /\ UNCHANGED <<outsideWizard, isSubmitting, showStreamingPanel, socketVars, wizardVars>>

\* setIsSubmitting(true); set<Result>(null); the step's stream is emptied;
\* setShowStreamingPanel(true); setShowAccordionStep(step); new WebSocket(...)
StartRun(step, kind) ==
    /\ CanCreate
    /\ isSubmitting' = TRUE
    /\ showStreamingPanel' = TRUE
    /\ showAccordionStep' = step
    /\ Created(kind)
    /\ Shows({})
    /\ Render(currentStep, [streamedEventsByStep EXCEPT ![step] = <<>>], {step})

\* the catch block of a start handler
StartFailed(step, hidesPanel) ==
    /\ isSubmitting' = FALSE
    /\ showStreamingPanel' = ~hidesPanel
    /\ showAccordionStep' = step
    /\ Shows({"toast.error"})
    /\ Render(currentStep, [streamedEventsByStep EXCEPT ![step] = <<>>], {step})
    /\ UNCHANGED socketVars

handleSourceCompanies(thrown) ==
    /\ OnWizard
    /\ currentStep = 0
    /\ ~filterResponse.present
    /\ ~isSubmitting
    /\ selectedSourcingKeys # {}
    /\ IF selectedSourcingKeys = {}
       THEN Refused
       ELSE /\ IF thrown THEN StartFailed(0, TRUE) ELSE StartRun(0, "sourcing")
            /\ filterResponse' = NULL
            /\ cleared' = Recorded(cleared.steps \ {0})
            /\ UNCHANGED <<outsideRun, completedSteps, screeningResponse,
                           riskAnalysisResponse, reportResponse, reportFilePath,
                           selectionVars>>

handleScreenCompanies(thrown) ==
    /\ OnWizard
    /\ currentStep = 1
    /\ ~screeningResponse.present
    /\ ~isSubmitting
    /\ selectedScreeningKeys # {}
    /\ getSelectedCompanyList # {}
    /\ IF selectedScreeningKeys = {} \/ getSelectedCompanyList = {}
       THEN Refused
       ELSE /\ IF thrown THEN StartFailed(1, TRUE) ELSE StartRun(1, "screening")
            /\ screeningResponse' = NULL
            /\ cleared' = Recorded(cleared.steps \ {1})
            /\ UNCHANGED <<outsideRun, completedSteps, filterResponse,
                           riskAnalysisResponse, reportResponse, reportFilePath,
                           selectionVars>>

handleAnalyzeRisk(thrown) ==
    /\ OnWizard
    /\ currentStep = 2
    /\ RiskAnalysisKeys # {}
    /\ ~(riskAnalysisResponse.present /\ riskAnalysisResponse.n > 0)
    /\ ~isSubmitting
    /\ selectedRiskAnalysisKeys # {}
    /\ IF selectedRiskAnalysisKeys = {}
          \/ ~(screeningResponse.details /\ screeningResponse.n > 0)
       THEN Refused
       ELSE /\ IF thrown THEN StartFailed(2, FALSE) ELSE StartRun(2, "risk")
            /\ riskAnalysisResponse' = NULL
            /\ cleared' = Recorded(cleared.steps \ {2})
            /\ UNCHANGED <<outsideRun, completedSteps, filterResponse,
                           screeningResponse, reportResponse, reportFilePath,
                           selectionVars>>

handleGenerateReport(thrown) ==
    /\ OnWizard
    /\ currentStep = 3
    /\ reportFilePath = NoPath
    /\ ~isSubmitting
    /\ riskAnalysisResponse.present /\ riskAnalysisResponse.n > 0
    /\ IF ~(riskAnalysisResponse.present /\ riskAnalysisResponse.n > 0)
       THEN Refused
       ELSE /\ IF thrown THEN StartFailed(3, TRUE) ELSE StartRun(3, "report")
            /\ reportResponse' = NULL
            /\ cleared' = Recorded(cleared.steps \ {3})
            /\ UNCHANGED <<outsideRun, completedSteps, filterResponse,
                           screeningResponse, riskAnalysisResponse,
                           reportFilePath, selectionVars>>

(***************************************************************************)
(* SourcingAgent: socket handlers.  s is the socket the event is for, e    *)
(* the parsed event.  An error event is followed by the close event of the *)
(* same socket in the same task, so onerror and onclose run back to back.  *)
(***************************************************************************)
HasRoom(step) == Len(streamedEventsByStep[step]) < MaxEvents

\* a message handler that puts the event in front: [eventData, ...prev]
AppendedInFront(step, e) ==
    [streamedEventsByStep EXCEPT ![step] = <<Stored(e)>> \o @]

Appended(step, e) == [streamedEventsByStep EXCEPT ![step] = Append(@, Stored(e))]

SourcingOnMessage(s, e) ==
    /\ OnWizard
    /\ CanReceive(s, "sourcing")
    /\ HasRoom(0)
    /\ Render(currentStep, Appended(0, e), {0})
    /\ IF e.type = "analysis_complete" /\ e.payload.present
       THEN /\ filterResponse' = WithCompanies(e.payload.n)
            /\ completedSteps' = completedSteps \cup {0}
            /\ showStreamingPanel' = FALSE
            /\ Closing(s)
            /\ Shows({"toast.success"})
       ELSE /\ Shows({})
            /\ UNCHANGED <<socketVars, filterResponse, completedSteps,
                           showStreamingPanel>>
    /\ UNCHANGED <<outsideWizard, isSubmitting, showAccordionStep, screeningResponse,
                   riskAnalysisResponse, reportResponse, reportFilePath,
                   selectionVars>>

ScreeningOnMessage(s, e) ==
    /\ OnWizard
    /\ CanReceive(s, "screening")
    /\ HasRoom(1)
    /\ Render(currentStep, Appended(1, e), {1})
    /\ IF e.type = "final_result" /\ e.payload.present
       THEN /\ screeningResponse' = e.payload
            /\ completedSteps' = completedSteps \cup {1}
            /\ showStreamingPanel' = FALSE
            /\ Closing(s)
            /\ Shows({"toast.success"})
       ELSE /\ Shows({})
            /\ UNCHANGED <<socketVars, screeningResponse, completedSteps,
                           showStreamingPanel>>
    /\ UNCHANGED <<outsideWizard, isSubmitting, showAccordionStep, filterResponse,
                   riskAnalysisResponse, reportResponse, reportFilePath,
                   selectionVars>>

\* results that is not an array makes the transformation throw: the inner
\* catch leaves the event appended and the socket open
RiskOnMessage(s, e) ==
    /\ OnWizard
    /\ CanReceive(s, "risk")
    /\ HasRoom(2)
    /\ Render(currentStep, Appended(2, e), {2})
    /\ IF e.type = "session_complete" /\ e.payload.present /\ e.payload.details
       THEN /\ riskAnalysisResponse' = WithCompanies(e.payload.n)
            /\ completedSteps' = completedSteps \cup {2}
            /\ showStreamingPanel' = FALSE
            /\ Closing(s)
            /\ Shows({"toast.success"})
       ELSE /\ Shows({})
            /\ UNCHANGED <<socketVars, riskAnalysisResponse, completedSteps,
                           showStreamingPanel>>
    /\ UNCHANGED <<outsideWizard, isSubmitting, showAccordionStep, filterResponse,
                   screeningResponse, reportResponse, reportFilePath,
                   selectionVars>>

ReportOnMessage(s, e) ==
    /\ OnWizard
    /\ CanReceive(s, "report")
    /\ HasRoom(3)
    /\ Render(currentStep, Appended(3, e), {3})
    /\ IF e.type = "report_complete"
       THEN /\ reportResponse' = [e.payload EXCEPT !.present = TRUE]
            /\ reportFilePath' = IF e.payload.details THEN "path" ELSE NoPath
            /\ completedSteps' = completedSteps \cup {3}
            /\ isSubmitting' = FALSE
            /\ Closing(s)
            /\ Shows({"toast.success"})
       ELSE /\ Shows({})
            /\ UNCHANGED <<socketVars, reportResponse, reportFilePath,
                           completedSteps, isSubmitting>>
    /\ UNCHANGED <<outsideWizard, showStreamingPanel, showAccordionStep, filterResponse,
                   screeningResponse, riskAnalysisResponse, selectionVars>>

WizardKinds == {"sourcing", "screening", "risk", "report"}

\* an onclose that connects again
WizardOnCloseReconnects(s) ==
    /\ OnWizard
    /\ \E kind \in WizardKinds : CanClose(s, kind)
    /\ created < MaxCreated
    /\ showStreamingPanel' = FALSE
    /\ isSubmitting' = FALSE
    /\ sockets' = [sockets EXCEPT ![s].state = "open"]
    /\ created' = created + 1
    /\ Shows({})
    /\ UNCHANGED <<outsideWizard, wizardVars>>

\* ws.onclose of the four wizard sockets
WizardOnClose(s) ==
    /\ OnWizard
    /\ \E kind \in WizardKinds : CanClose(s, kind)
    /\ showStreamingPanel' = FALSE
    /\ isSubmitting' = FALSE
    /\ Released(s)
    /\ Shows({})
    /\ UNCHANGED <<outsideWizard, wizardVars>>

\* ws.onerror of the four wizard sockets, then ws.onclose
WizardOnError(s) ==
    /\ OnWizard
    /\ \E kind \in WizardKinds : CanFail(s, kind)
    /\ showStreamingPanel' = FALSE
    /\ isSubmitting' = FALSE
    /\ Released(s)
    /\ Shows({"toast.error"})
    /\ UNCHANGED <<outsideWizard, wizardVars>>

(***************************************************************************)
(* FundMandate: the form.  The inputs are disabled while isSubmitting and  *)
(* lie under the analyzing overlay and the capabilities modal.             *)
(***************************************************************************)
OnMandate == page = "mandate"

allowedTypes == {"application/pdf"}

maxSize == 10 * 1024 * 1024

\* the files the user may pick
Files == [type : {"application/pdf", "image/png"}, size : {maxSize, maxSize + 1}]

\* the texts the user may type: empty, blank, a word between spaces
Texts == {<<>>, <<"sp">>, <<"sp", "w", "sp">>}

\* a validation that leaves out the size
validateFileType(file) ==
    IF file.type \notin allowedTypes THEN "Only PDF files are allowed" ELSE NoError

validateFile(file) ==
    IF file.type \notin allowedTypes THEN "Only PDF files are allowed"
    ELSE IF file.size > maxSize THEN "File size must be less than 10MB"
    ELSE NoError

FormCovered == isAnalyzing \/ showCapabilitiesModal

\* handleFileInput with files[0] = file
handleFileSelect(file) ==
    /\ OnMandate
    /\ ~isSubmitting
    /\ ~FormCovered
    /\ LET error == validateFile(file)
       IN  IF error # NoError
           THEN /\ errors' = [errors EXCEPT !.file = error]
                /\ UNCHANGED <<selectedFile, isSubmitted>>
           ELSE /\ selectedFile' = file
                /\ errors' = [errors EXCEPT !.file = NoError]
                /\ isSubmitted' = FALSE
    /\ Shows({})
    /\ UNCHANGED <<page, isSubmitting, showStreamingPanel, socketVars, wizardVars,
                   description, capabilityVars, showAccordion, parsedResult,
                   apiError, streamingEvents, aggregatedThinking,
                   lastProcessedStreamingCount, requests, otherPages>>

\* the trash button next to the selected file
removeFile ==
    /\ OnMandate
    /\ ~isSubmitting
    /\ ~FormCovered
    /\ selectedFile # NoFile
    /\ errors.file = NoError
    /\ selectedFile' = NoFile
    /\ errors' = [errors EXCEPT !.file = NoError]
    /\ Shows({})
    /\ UNCHANGED <<page, isSubmitting, showStreamingPanel, socketVars, wizardVars,
                   description, capabilityVars, parseVars, requests, otherPages>>

handleDescriptionChange(value) ==
    /\ OnMandate
    /\ ~isSubmitting
    /\ ~FormCovered
    /\ value # description
    /\ description' = value
    /\ errors' = [errors EXCEPT !.description = NoError]
    /\ isSubmitted' = FALSE
    /\ Shows({})
    /\ UNCHANGED <<page, isSubmitting, showStreamingPanel, socketVars, wizardVars,
                   selectedFile, capabilityVars, showAccordion, parsedResult,
                   apiError, streamingEvents, aggregatedThinking,
                   lastProcessedStreamingCount, requests, otherPages>>

canSubmit ==
    /\ ~isSubmitting
    /\ selectedFile # NoFile
    /\ Trim(description) # <<>>
    /\ errors.file = NoError
    /\ errors.description = NoError

(***************************************************************************)
(* FundMandate: handleSubmit.  The handler stops at two awaits: the 1.5 s  *)
(* timer and the capabilities GET.  requests counts the calls waiting at   *)
(* each await.                                                             *)
(***************************************************************************)
InFlight == requests.analyzing + requests.fetching + requests.uploading

\* handleSubmit without its validation
SubmittedUnvalidated ==
    /\ isAnalyzing' = TRUE
    /\ pendingSubmitData' = [file |-> selectedFile,
                             description |-> Trim(description)]
    /\ requests' = [requests EXCEPT !.analyzing = @ + 1]
    /\ UNCHANGED errors
    /\ Shows({})
    /\ UNCHANGED <<page, isSubmitting, showStreamingPanel, socketVars, wizardVars,
                   selectedFile, description, capabilitiesLoading,
                   capabilitiesResult, subprocesses, capabilityParams,
                   showCapabilitiesModal, parseVars, otherPages>>

\* handleSubmit up to its first await
Submitted ==
    /\ IF selectedFile = NoFile \/ Trim(description) = <<>>
       THEN /\ errors' =
                   [file |-> IF selectedFile = NoFile
                             THEN "Please select a PDF file" ELSE NoError,
                    description |-> IF Trim(description) = <<>>
                                    THEN "Please provide a description" ELSE NoError]
            /\ UNCHANGED <<isAnalyzing, pendingSubmitData, requests>>
       ELSE /\ isAnalyzing' = TRUE
            /\ pendingSubmitData' = [file |-> selectedFile,
                                     description |-> Trim(description)]
            /\ requests' = [requests EXCEPT !.analyzing = @ + 1]
            /\ UNCHANGED errors
    /\ Shows({})
    /\ UNCHANGED <<page, isSubmitting, showStreamingPanel, socketVars, wizardVars,
                   selectedFile, description, capabilitiesLoading,
                   capabilitiesResult, subprocesses, capabilityParams,
                   showCapabilitiesModal, parseVars, otherPages>>

\* the Submit button, which is disabled unless canSubmit
handleSubmit ==
    /\ OnMandate
    /\ canSubmit
    /\ ~FormCovered
    /\ InFlight < MaxRequests
    /\ Submitted

\* A submit event dispatched on the form (onSubmit={handleSubmit}).  The form
\* has no submit button and several text fields, so the browser sends none
\* by itself; a script or a component test that submits the form does.
formSubmit ==
    /\ OnMandate
    /\ InFlight < MaxRequests
    /\ Submitted

\* the timer fired: setIsAnalyzing(false) and the capabilities GET is sent
AnalyzingDone ==
    /\ OnMandate
    /\ requests.analyzing > 0
    /\ isAnalyzing' = FALSE
    /\ capabilitiesLoading' = TRUE
    /\ capabilitiesResult' = NoData
    /\ requests' = [requests EXCEPT !.analyzing = @ - 1, !.fetching = @ + 1]
    /\ Shows({})
    /\ UNCHANGED <<page, isSubmitting, showStreamingPanel, socketVars, wizardVars,
                   formVars, pendingSubmitData, subprocesses, capabilityParams,
                   showCapabilitiesModal, parseVars, otherPages>>

\* a capabilities GET whose failure ends handleSubmit in its outer catch
CapabilitiesFetchedOrAbandoned(outcome) ==
    /\ OnMandate
    /\ requests.fetching > 0
    /\ requests' = [requests EXCEPT !.fetching = @ - 1]
    /\ IF outcome # "server"
       THEN /\ capabilitiesResult' = NoData
            /\ isAnalyzing' = FALSE
            /\ capabilitiesLoading' = FALSE
            /\ Shows({"toast.error"})
            /\ UNCHANGED <<subprocesses, capabilityParams,
                           showCapabilitiesModal>>
       ELSE /\ capabilitiesResult' = outcome
            /\ subprocesses' = outcome
            /\ capabilityParams' = outcome
            /\ showCapabilitiesModal' = TRUE
            /\ capabilitiesLoading' = FALSE
            /\ Shows({})
            /\ UNCHANGED isAnalyzing
    /\ UNCHANGED <<page, isSubmitting, showStreamingPanel, socketVars, wizardVars,
                   formVars, pendingSubmitData, parseVars, otherPages>>

\* The capabilities GET settled.  outcome: "server" a capabilities document,
\* "null" a JSON null body, "failed" a network error or a non-OK status (the
\* bundled mock document is used).
CapabilitiesFetched(outcome) ==
    /\ OnMandate
    /\ requests.fetching > 0
    /\ requests' = [requests EXCEPT !.fetching = @ - 1]
    /\ LET data == IF outcome = "failed" THEN mockCapabilities ELSE outcome
           shown == IF outcome = "failed" THEN {"toast"} ELSE {}
       IN  IF data = NoData
           THEN \* capability.processes of null throws: the outer catch
                /\ capabilitiesResult' = data
                /\ isAnalyzing' = FALSE
                /\ capabilitiesLoading' = FALSE
                /\ Shows(shown \cup {"toast.error"})
                /\ UNCHANGED <<subprocesses, capabilityParams,
                               showCapabilitiesModal>>
           ELSE /\ capabilitiesResult' = data
                /\ subprocesses' = data
                /\ capabilityParams' = data
                /\ showCapabilitiesModal' = TRUE
                /\ capabilitiesLoading' = FALSE
                /\ Shows(shown)
                /\ UNCHANGED isAnalyzing
    /\ UNCHANGED <<page, isSubmitting, showStreamingPanel, socketVars, wizardVars,
                   formVars, pendingSubmitData, parseVars, otherPages>>

\* Cancel, or a click on the backdrop of the modal
cancelCapabilitiesModal ==
    /\ OnMandate
    /\ showCapabilitiesModal
    /\ ~capabilitiesLoading
    /\ showCapabilitiesModal' = FALSE
    /\ Shows({})
    /\ UNCHANGED <<page, isSubmitting, showStreamingPanel, socketVars, wizardVars,
                   formVars, isAnalyzing, pendingSubmitData, capabilitiesLoading,
                   capabilitiesResult, subprocesses, capabilityParams, parseVars,
                   requests, otherPages>>

(***************************************************************************)
(* FundMandate: proceedWithNormalFlow and the parse socket.                *)
(***************************************************************************)
\* the aggregation effect of the mandate page, on the wizard's definition
MandateEffect(events, agg, last) ==
    LET after == AggregationEffect(1, <<events>>, <<agg>>, <<last>>)
    IN  [agg |-> after.agg[1], last |-> after.last[1]]

\* Continue of the modal: proceedWithNormalFlow up to the upload POST
continueCapabilitiesModal ==
    /\ OnMandate
    /\ showCapabilitiesModal
    /\ ~capabilitiesLoading
    /\ pendingSubmitData.file # NoFile
    /\ InFlight < MaxRequests
    /\ showAccordion' = TRUE
    /\ showCapabilitiesModal' = FALSE
    /\ isSubmitting' = TRUE
    /\ isSubmitted' = FALSE
    /\ parsedResult' = NULL
    /\ apiError' = NoError
    /\ streamingEvents' = <<>>
    /\ showStreamingPanel' = TRUE
    /\ LET after == MandateEffect(<<>>, aggregatedThinking,
                                  lastProcessedStreamingCount)
       IN  /\ aggregatedThinking' = after.agg
           /\ lastProcessedStreamingCount' = after.last
    /\ requests' = [requests EXCEPT !.uploading = @ + 1]
    /\ Shows({})
    /\ UNCHANGED <<page, socketVars, wizardVars, formVars, isAnalyzing,
                   pendingSubmitData, capabilitiesLoading, capabilitiesResult,
                   subprocesses, capabilityParams, otherPages>>

\* the upload POST settled: the socket is created, or the catch block runs
UploadDone(ok) ==
    /\ OnMandate
    /\ requests.uploading > 0
    /\ requests' = [requests EXCEPT !.uploading = @ - 1]
    /\ IF ok
       THEN /\ CanCreate
            /\ Created("parse")
            /\ Shows({})
            /\ UNCHANGED <<apiError, showStreamingPanel, isSubmitting>>
       ELSE /\ apiError' = "upload"
            /\ showStreamingPanel' = FALSE
            /\ isSubmitting' = FALSE
            /\ Shows({"alert"})
            /\ UNCHANGED socketVars
    /\ UNCHANGED <<page, wizardVars, formVars, capabilityVars, showAccordion,
                   isSubmitted, parsedResult, streamingEvents, aggregatedThinking,
                   lastProcessedStreamingCount, otherPages>>

\* an onmessage that takes every analysis_complete for the completion
ParseOnMessageUnguarded(s, e) ==
    /\ OnMandate
    /\ CanReceive(s, "parse")
    /\ Len(streamingEvents) < MaxEvents
    /\ streamingEvents' = Append(streamingEvents, Stored(e))
    /\ LET after == MandateEffect(streamingEvents', aggregatedThinking,
                                  lastProcessedStreamingCount)
       IN  /\ aggregatedThinking' = after.agg
           /\ lastProcessedStreamingCount' = after.last
    /\ IF e.type = "analysis_complete"
       THEN /\ parsedResult' = e.payload
            /\ showStreamingPanel' = FALSE
            /\ isSubmitting' = FALSE
            /\ isSubmitted' = TRUE
            /\ selectedFile' = NoFile
            /\ description' = <<>>
            /\ errors' = [file |-> NoError, description |-> NoError]
            /\ Closing(s)
            /\ Shows({"toast.success"})
       ELSE /\ Shows({})
            /\ UNCHANGED <<socketVars, parsedResult, showStreamingPanel,
                           isSubmitting, isSubmitted, formVars>>
    /\ UNCHANGED <<page, wizardVars, capabilityVars, showAccordion, apiError,
                   requests, otherPages>>

ParseOnMessage(s, e) ==
    /\ OnMandate
    /\ CanReceive(s, "parse")
    /\ Len(streamingEvents) < MaxEvents
    /\ streamingEvents' = Append(streamingEvents, Stored(e))
    /\ LET after == MandateEffect(streamingEvents', aggregatedThinking,
                                  lastProcessedStreamingCount)
       IN  /\ aggregatedThinking' = after.agg
           /\ lastProcessedStreamingCount' = after.last
    /\ IF e.type = "analysis_complete" /\ e.payload.present
       THEN /\ parsedResult' = e.payload
            /\ showStreamingPanel' = FALSE
            /\ isSubmitting' = FALSE
            /\ isSubmitted' = TRUE
            /\ selectedFile' = NoFile
            /\ description' = <<>>
            /\ errors' = [file |-> NoError, description |-> NoError]
            /\ Closing(s)
            /\ Shows({"toast.success"})
       ELSE /\ Shows({})
            /\ UNCHANGED <<socketVars, parsedResult, showStreamingPanel,
                           isSubmitting, isSubmitted, formVars>>
    /\ UNCHANGED <<page, wizardVars, capabilityVars, showAccordion, apiError,
                   requests, otherPages>>

\* ws.onclose of the parse socket only logs
ParseOnClose(s) ==
    /\ OnMandate
    /\ CanClose(s, "parse")
    /\ Released(s)
    /\ Shows({})
    /\ UNCHANGED <<page, isSubmitting, showStreamingPanel, wizardVars, mandateVars,
                   otherPages>>

\* ws.onerror of the parse socket, then ws.onclose
ParseOnError(s) ==
    /\ OnMandate
    /\ CanFail(s, "parse")
    /\ apiError' = "socket"
    /\ showStreamingPanel' = FALSE
    /\ Released(s)
    /\ Shows({})
    /\ UNCHANGED <<page, isSubmitting, wizardVars, formVars, capabilityVars,
                   showAccordion, isSubmitted, parsedResult, streamingEvents,
                   aggregatedThinking, lastProcessedStreamingCount, requests,
                   otherPages>>

(***************************************************************************)
(* Dashboard: the mount effect calls fetchDashboardStats once.             *)
(***************************************************************************)
OnDashboard == page = "dashboard"

\* the GET of fetchDashboardStats settled
fetchDashboardStats(ok) ==
    /\ OnDashboard
    /\ requests.stats > 0
    /\ requests' = [requests EXCEPT !.stats = @ - 1]
    /\ IF ok
       THEN /\ stats' = "data"
            /\ Shows({})
       ELSE /\ Shows({"toast.error"})
            /\ UNCHANGED stats
    /\ loading' = FALSE
    /\ UNCHANGED <<page, isSubmitting, showStreamingPanel, socketVars, wizardVars,
                   formVars, capabilityVars, parseVars, agentVars, componentVars, cleared>>

(***************************************************************************)
(* Agent: the chat page and the useAgent hook.                             *)
(***************************************************************************)
OnAgent == page = "agent"

\* onChange of the textarea, which is disabled while isLoading
setQuery(value) ==
    /\ OnAgent
    /\ ~isLoading
    /\ value # query
    /\ query' = value
    /\ Shows({})
    /\ UNCHANGED <<page, isSubmitting, showStreamingPanel, socketVars, wizardVars,
                   mandateVars, dashboardVars, componentVars, cleared, isLoading,
                   messages, settled>>

\* handleSubmit of the chat page without setIsLoading(true)
agentSubmittedUnlocked ==
    /\ IF Trim(query) = <<>> \/ isLoading
       THEN UNCHANGED <<agentVars, requests>>
       ELSE /\ messages' = Append(messages, [role |-> "user",
                                             content |-> Trim(query)])
            /\ query' = <<>>
            /\ requests' = [requests EXCEPT !.chat = @ + 1]
            /\ UNCHANGED <<isLoading, settled>>
    /\ Shows({})
    /\ UNCHANGED <<page, isSubmitting, showStreamingPanel, socketVars, wizardVars,
                   formVars, capabilityVars, parseVars, dashboardVars,
                   componentVars, cleared>>

\* handleSubmit of the chat page up to the POST of sendMessage
agentSubmitted ==
    /\ IF Trim(query) = <<>> \/ isLoading
       THEN UNCHANGED <<agentVars, requests>>
       ELSE /\ messages' = Append(messages, [role |-> "user",
                                             content |-> Trim(query)])
            /\ query' = <<>>
            /\ isLoading' = TRUE
            /\ requests' = [requests EXCEPT !.chat = @ + 1]
            /\ UNCHANGED settled
    /\ Shows({})
    /\ UNCHANGED <<page, isSubmitting, showStreamingPanel, socketVars, wizardVars,
                   formVars, capabilityVars, parseVars, dashboardVars,
                   componentVars, cleared>>

\* Enter in the textarea, which is disabled while isLoading (the send button
\* is disabled over a blank query as well)
agentHandleSubmit ==
    /\ OnAgent
    /\ ~isLoading
    /\ Len(messages) + 2 <= MaxMessages
    /\ agentSubmitted

\* a submit event dispatched on the chat form (onSubmit={handleSubmit}) by a
\* script or a component test, whatever the controls allow
agentFormSubmit ==
    /\ OnAgent
    /\ Len(messages) + 2 <= MaxMessages
    /\ agentSubmitted

Apology == <<"sorry">>

\* JSON bodies of the chat endpoint
Bodies ==
    {[response |-> <<"reply">>, status |-> "success"],
     [response |-> <<>>, status |-> "success"],
     [response |-> <<"reply">>, status |-> "error"],
     JsNull}

\* how the POST ends: with an OK status and a JSON body, with another status,
\* with a network error, or with a body that is not JSON
FetchOutcomes == {"ok", "status", "network", "json"}

\* sendMessage without its try / catch
useAgentUncaught(outcome, body) ==
    IF outcome = "ok"
    THEN [rejected |-> FALSE, value |-> body]
    ELSE [rejected |-> TRUE, value |-> JsUndefined]

\* sendMessage of the useAgent hook: how its promise settles
useAgent(outcome, body) ==
    IF outcome = "ok"
    THEN [rejected |-> FALSE, value |-> body]
    ELSE [rejected |-> FALSE,
          value |-> [response |-> Apology, status |-> "error"]]

\* the POST ended and handleSubmit of the chat page resumes after its await;
\* reading data.response of a null body throws into its catch block
sendMessage(outcome, body) ==
    /\ OnAgent
    /\ requests.chat > 0
    /\ requests' = [requests EXCEPT !.chat = @ - 1]
    /\ settled' = useAgent(outcome, body)
    /\ messages' = Append(messages,
                          [role |-> "assistant",
                           content |-> IF settled'.rejected \/ settled'.value = JsNull
                                       THEN Apology
                                       ELSE settled'.value.response])
    /\ isLoading' = FALSE
    /\ Shows({})
    /\ UNCHANGED <<page, isSubmitting, showStreamingPanel, socketVars, wizardVars,
                   formVars, capabilityVars, parseVars, dashboardVars,
                   componentVars, cleared, query>>

(***************************************************************************)
(* SourcingAgent: one row of the risk table and of the CSV export, which   *)
(* read a company through getRiskScores and getOverall.                    *)
(***************************************************************************)
renderRiskRow ==
    /\ OnWizard
    /\ riskScores = JsUndefined
    /\ riskScores' = getRiskScores(company)
    /\ overall' = getOverall(company)
    /\ UNCHANGED <<page, commonVars, wizardVars, mandateVars, dashboardVars,
                   agentVars, company, accordionVars, cleared>>

(***************************************************************************)
(* AgentThinkingAccordion.  An item is a plain string, a record with a     *)
(* content only, or an object with a type and a content.  A type is a      *)
(* sequence of characters: the letters a and t, their capitals, "_" and    *)
(* the space "sp"; 'Agent Thinking' is written A sp T.                     *)
(***************************************************************************)
AgentThinkingTitle == <<"A", "sp", "T">>

toUpperCase(c) == CASE c = "a" -> "A" [] c = "t" -> "T" [] OTHER -> c

\* item.type.replace(/_/g, ' ').replace(/\b\w/g, l => l.toUpperCase())
getEventType(item) ==
    IF "type" \notin DOMAIN item
    THEN AgentThinkingTitle
    ELSE IF item.type # <<>>
    THEN LET spaced == [i \in 1..Len(item.type) |->
                           IF item.type[i] = "_" THEN "sp" ELSE item.type[i]]
         IN  [i \in 1..Len(spaced) |->
                 IF i = 1 \/ spaced[i - 1] = "sp"
                 THEN toUpperCase(spaced[i]) ELSE spaced[i]]
    ELSE AgentThinkingTitle

RECURSIVE groupSingly(_, _, _)
\* a grouping that opens a group for every item
groupSingly(items, groups, currentGroup) ==
    IF items = <<>>
    THEN IF Len(currentGroup) > 0 THEN Append(groups, currentGroup) ELSE groups
    ELSE IF Len(currentGroup) = 0
    THEN groupSingly(Tail(items), groups, <<Head(items)>>)
    ELSE groupSingly(Tail(items), Append(groups, currentGroup), <<Head(items)>>)

RECURSIVE groupRuns(_, _, _)
\* the loop of the groupedThinking memo over the items still to visit
groupRuns(items, groups, currentGroup) ==
    IF items = <<>>
    THEN IF Len(currentGroup) > 0 THEN Append(groups, currentGroup) ELSE groups
    ELSE IF Len(currentGroup) = 0
    THEN groupRuns(Tail(items), groups, <<Head(items)>>)
    ELSE IF getEventType(Head(items)) = getEventType(currentGroup[1])
    THEN groupRuns(Tail(items), groups, Append(currentGroup, Head(items)))
    ELSE groupRuns(Tail(items), Append(groups, currentGroup), <<Head(items)>>)

EventTypes ==
    {<<>>, <<"a", "_", "t">>, <<"a", "sp", "t">>, <<"t">>, <<"T">>, <<"a", "t">>}

Items ==
    {[content |-> <<"w">>], [type |-> <<"a", "_", "t">>, content |-> <<"w", "w">>]}
    \cup {[type |-> type, content |-> <<"w">>] : type \in EventTypes}

OnAccordionPage == page \in {"wizard", "mandate"}

\* a render with the list `given`: the memo is recomputed and the effect on
\* groupedThinking.length runs when that length changed
accordionRender(given) ==
    /\ accordionThinking' = given
    /\ groupedThinking' = groupRuns(given, <<>>, <<>>)
    /\ expandedGroupIndex' =
           IF Len(groupedThinking') # Len(groupedThinking)
              /\ Len(groupedThinking') > 0
           THEN Len(groupedThinking') - 1
           ELSE expandedGroupIndex
    /\ UNCHANGED <<page, commonVars, wizardVars, mandateVars, dashboardVars,
                   agentVars, rowVars, cleared>>

\* the page's aggregation effect appended an item to the list
thinkingAppended(item) ==
    /\ OnAccordionPage
    /\ Len(accordionThinking) < MaxItems
    /\ accordionRender(Append(accordionThinking, item))

\* the page's aggregation effect emptied the list: a run started
thinkingEmptied ==
    /\ OnAccordionPage
    /\ accordionThinking # <<>>
    /\ accordionRender(<<>>)

\* the header button of group groupIdx
toggleGroupAccordion(groupIdx) ==
    /\ OnAccordionPage
    /\ groupIdx \in 0..(Len(groupedThinking) - 1)
    /\ expandedGroupIndex' = IF expandedGroupIndex = groupIdx THEN -1 ELSE groupIdx
    /\ UNCHANGED <<page, commonVars, wizardVars, mandateVars, dashboardVars,
                   agentVars, rowVars, cleared, accordionThinking, groupedThinking>>

(***************************************************************************)
(* The next-state relation.  `events` gives, for every kind of socket, the *)
(* events its server may send.                                             *)
(***************************************************************************)
WizardUser ==
    \/ \E index \in CompanyIndexes : toggleCompanySelect(index)
    \/ \E checked \in BOOLEAN : onSelectAll(checked)
    \/ nextStep
    \/ prevStep
    \/ \E index \in Steps : headerClick(index)
    \/ \E index \in 0..2 : handleResetStep(index)
    \/ \E thrown \in BOOLEAN : handleSourceCompanies(thrown)
    \/ \E thrown \in BOOLEAN : handleScreenCompanies(thrown)
    \/ \E thrown \in BOOLEAN : handleAnalyzeRisk(thrown)
    \/ \E thrown \in BOOLEAN : handleGenerateReport(thrown)

\* buttons that are on screen only over an empty result
WizardRetry ==
    \/ goBackToStep
    \/ resetRiskAnalysis

WizardSockets(events) ==
    \/ \E s \in SocketIds, e \in events.sourcing : SourcingOnMessage(s, e)
    \/ \E s \in SocketIds, e \in events.screening : ScreeningOnMessage(s, e)
    \/ \E s \in SocketIds, e \in events.risk : RiskOnMessage(s, e)
    \/ \E s \in SocketIds, e \in events.report : ReportOnMessage(s, e)
    \/ \E s \in SocketIds : WizardOnClose(s)
    \/ \E s \in SocketIds : WizardOnError(s)

MandateUser ==
    \/ \E file \in Files : handleFileSelect(file)
    \/ removeFile
    \/ \E value \in Texts : handleDescriptionChange(value)
    \/ handleSubmit
    \/ cancelCapabilitiesModal
    \/ continueCapabilitiesModal

MandateRequests ==
    \/ AnalyzingDone
    \/ \E outcome \in {"server", "null", "failed"} : CapabilitiesFetched(outcome)
    \/ \E ok \in BOOLEAN : UploadDone(ok)

MandateSockets(events) ==
    \E s \in SocketIds :
        \/ \E e \in events.parse : ParseOnMessage(s, e)
        \/ ParseOnClose(s)
        \/ ParseOnError(s)

AgentUser ==
    \/ \E value \in Texts : setQuery(value)
    \/ agentHandleSubmit

AgentRequests ==
    \/ \E body \in Bodies : sendMessage("ok", body)
    \/ \E outcome \in FetchOutcomes \ {"ok"} : sendMessage(outcome, JsUndefined)

OtherRequests ==
    \/ \E ok \in BOOLEAN : fetchDashboardStats(ok)
    \/ AgentRequests

Pending == MandateRequests \/ OtherRequests

\* servers that answer with their completion event only
Next ==
    \/ WizardUser
    \/ WizardRetry
    \/ WizardSockets(ResultEvents)
    \/ MandateUser
    \/ MandateSockets(ResultEvents)
    \/ AgentUser
    \/ Pending

Spec == Init /\ [][Next]_vars

\* the same program with servers that stream progress events
StreamNext ==
    \/ WizardUser
    \/ WizardSockets(ProgressEvents)
    \/ MandateUser
    \/ MandateSockets(ProgressEvents)
    \/ AgentUser
    \/ Pending

StreamSpec == Init /\ [][StreamNext]_vars

(***************************************************************************)
(* The render helpers on their own: the wizard with a risk analysis        *)
(* answered, the company of the row drawn from Companies.                   *)
(***************************************************************************)
RowInit ==
    /\ PageInit
    /\ AccordionIdle
    /\ HistoryIdle
    /\ OnWizard
    /\ company \in Companies
    /\ riskScores = JsUndefined
    /\ overall = JsUndefined

RowNext == renderRiskRow

RowSpec == RowInit /\ [][RowNext]_vars

(***************************************************************************)
(* One accordion on its own, mounted over a list of at most two items.     *)
(***************************************************************************)
AccordionInit ==
    /\ PageInit
    /\ RowIdle
    /\ HistoryIdle
    /\ OnAccordionPage
    /\ accordionThinking \in UNION {[1..n -> Items] : n \in 0..2}
    /\ groupedThinking = groupRuns(accordionThinking, <<>>, <<>>)
    /\ expandedGroupIndex = IF Len(groupedThinking) > 0
                            THEN Len(groupedThinking) - 1 ELSE -1

AccordionNext ==
    \/ \E item \in Items : thinkingAppended(item)
    \/ thinkingEmptied
    \/ \E groupIdx \in 0..(MaxItems - 1) : toggleGroupAccordion(groupIdx)

AccordionSpec == AccordionInit /\ [][AccordionNext]_vars

(***************************************************************************)
(* The chat page with submit events dispatched on its form.  Every POST    *)
(* ends: fetch settles with a response or a network error.                 *)
(***************************************************************************)
ChatInit == Init /\ OnAgent

ChatNext ==
    \/ AgentUser
    \/ agentFormSubmit
    \/ AgentRequests

ChatSpec == ChatInit /\ [][ChatNext]_vars /\ WF_vars(AgentRequests)

(***************************************************************************)
(* The mandate page with submit events dispatched on its form.             *)
(***************************************************************************)
FormInit == Init /\ OnMandate

FormNext ==
    \/ MandateUser
    \/ formSubmit
    \/ MandateRequests
    \/ MandateSockets(ResultEvents)

FormSpec == FormInit /\ [][FormNext]_vars

(***************************************************************************)
(* The mandate page with its scheduling: every timer fires and every HTTP  *)
(* request settles, and every WebSocket that was created ends with a close *)
(* event, after an error event or without one.                             *)
(***************************************************************************)
ParseSocketEnds == \E s \in SocketIds : ParseOnClose(s) \/ ParseOnError(s)

ParseSpec ==
    /\ FormInit
    /\ [][FormNext]_vars
    /\ WF_vars(MandateRequests)
    /\ WF_vars(ParseSocketEnds)

(***************************************************************************)
(* The sourcing and screening steps of the wizard with the history of the  *)
(* resets recorded.                                                        *)
(***************************************************************************)
ResetInit ==
    /\ PageInit
    /\ RowIdle
    /\ AccordionIdle
    /\ OnWizard
    /\ cleared = [recorded |-> TRUE, steps |-> {}]

ResetNext ==
    \/ \E index \in CompanyIndexes : toggleCompanySelect(index)
    \/ nextStep
    \/ prevStep
    \/ \E index \in 0..1 : handleResetStep(index)
    \/ \E thrown \in BOOLEAN : handleSourceCompanies(thrown)
    \/ \E thrown \in BOOLEAN : handleScreenCompanies(thrown)
    \/ \E s \in SocketIds, e \in ResultEvents.sourcing : SourcingOnMessage(s, e)
    \/ \E s \in SocketIds, e \in ResultEvents.screening : ScreeningOnMessage(s, e)
    \/ \E s \in SocketIds : WizardOnClose(s)
    \/ \E s \in SocketIds : WizardOnError(s)

ResetSpec == ResetInit /\ [][ResetNext]_vars

(***************************************************************************)
(* Properties.                                                             *)
(***************************************************************************)
Kinds == WizardKinds \cup {"parse"}

AllEvents == [kind \in Kinds |-> ResultEvents[kind] \cup ProgressEvents[kind]]

\* the events the server of socket s may send
EventsOf(s) == IF sockets[s].kind \in Kinds THEN AllEvents[sockets[s].kind] ELSE {}

OpenSockets(kind) ==
    {s \in SocketIds : sockets[s].kind = kind /\ sockets[s].state = "open"}

\* the message handler of a socket of `kind` ran for event e of socket s
Received(kind, s, e) ==
    CASE kind = "sourcing"  -> SourcingOnMessage(s, e)
      [] kind = "screening" -> ScreeningOnMessage(s, e)
      [] kind = "risk"      -> RiskOnMessage(s, e)
      [] kind = "report"    -> ReportOnMessage(s, e)
      [] kind = "parse"     -> ParseOnMessage(s, e)

CompletionType(kind) ==
    CASE kind \in {"sourcing", "parse"} -> "analysis_complete"
      [] kind = "screening" -> "final_result"
      [] kind = "risk"      -> "session_complete"
      [] kind = "report"    -> "report_complete"

StepOf(kind) ==
    CASE kind = "sourcing"  -> 0
      [] kind = "screening" -> 1
      [] kind = "risk"      -> 2
      [] kind = "report"    -> 3

ResultOf(kind) ==
    CASE kind = "sourcing"  -> filterResponse
      [] kind = "screening" -> screeningResponse
      [] kind = "risk"      -> riskAnalysisResponse
      [] kind = "report"    -> reportResponse
      [] kind = "parse"     -> parsedResult

Completed(kind) ==
    IF kind = "parse" THEN isSubmitted ELSE StepOf(kind) \in completedSteps

\* the handler recorded the result, marked the step completed and closed s
Terminated(kind, s) ==
    /\ ResultOf(kind)'.present
    /\ Completed(kind)'
    /\ sockets'[s] = [kind |-> kind, state |-> "closing"]

\* C1: on the wizard at most one socket of a workflow step is open at a time
C1_OneOpenSocketPerStep ==
    \A kind \in WizardKinds : Cardinality(OpenSockets(kind)) <= 1

\* C2: the handling of a socket's error event closes the connection and
\* leaves isSubmitting and showStreamingPanel false, for the parse socket as
\* for the four sockets of the wizard
C2_ErrorResetsLoadingFlags ==
    [][\A s \in SocketIds :
          (WizardOnError(s) \/ ParseOnError(s))
              => /\ sockets'[s] = NoSocket
                 /\ ~isSubmitting'
                 /\ ~showStreamingPanel']_vars

\* C3 as stated: every event of the step's completion type makes the handler
\* record the result, mark the step completed and close the socket
C3_CompletionEventTerminates ==
    [][\A s \in SocketIds : \A e \in EventsOf(s) :
          (Received(sockets[s].kind, s, e) /\ e.type = CompletionType(sockets[s].kind))
              => Terminated(sockets[s].kind, s)]_vars

\* the completion event carries what the handler asks for: result (sourcing),
\* content (screening), an array of results (risk), criteria (parse);
\* report_complete needs nothing
Terminal(kind, e) ==
    /\ e.type = CompletionType(kind)
    /\ \/ kind = "report"
       \/ e.payload.present /\ (kind = "risk" => e.payload.details)

\* C3: a completion event that carries its result makes the handler record
\* the result, mark the step completed (isSubmitted on the mandate page) and
\* close the socket; any other event is only appended and leaves the socket
\* open; a socket on which close() was called delivers no event
C3_ResultEventTerminates ==
    [][\A s \in SocketIds : \A e \in EventsOf(s) :
          Received(sockets[s].kind, s, e)
              => /\ sockets[s].state = "open"
                 /\ IF Terminal(sockets[s].kind, e)
                    THEN Terminated(sockets[s].kind, s)
                    ELSE sockets'[s] = sockets[s]]_vars

\* a session_complete without an array of results was appended, then one with
\* its results ended the run
C3_Witness ==
    /\ \E s \in SocketIds : sockets[s] = [kind |-> "risk", state |-> "closing"]
    /\ Len(streamedEventsByStep[2]) = 2
    /\ riskAnalysisResponse.present
    /\ 2 \in completedSteps

\* a start handler ran, with its try block throwing or not
Started(thrown) ==
    \/ handleSourceCompanies(thrown)
    \/ handleScreenCompanies(thrown)
    \/ handleAnalyzeRisk(thrown)
    \/ handleGenerateReport(thrown)

\* some message handler ran
SomeReceived ==
    \E s \in SocketIds : \E e \in EventsOf(s) : Received(sockets[s].kind, s, e)

\* the event list the sockets of `kind` append to
EventList(kind) ==
    IF kind = "parse" THEN streamingEvents ELSE streamedEventsByStep[StepOf(kind)]

\* C4: a message handler appends exactly the received event at the end of its
\* step's list and changes no other list; a list changes only by such an
\* append or by being emptied, and is emptied only by the start of a run or
\* by a reset
C4_ArrivalOrder ==
    [][(\E k \in Kinds : EventList(k)' # EventList(k)) =>
          /\ \A s \in SocketIds : \A e \in EventsOf(s) :
                Received(sockets[s].kind, s, e) =>
                    \A k \in Kinds :
                        EventList(k)' = IF k = sockets[s].kind
                                        THEN Append(EventList(k), Stored(e))
                                        ELSE EventList(k)
          /\ \A k \in Kinds :
                EventList(k)' # EventList(k) =>
                    \/ SomeReceived
                    \/ /\ EventList(k)' = <<>>
                       /\ \/ \E thrown \in BOOLEAN : Started(thrown)
                          \/ \E index \in 0..2 : handleResetStep(index)
                          \/ continueCapabilitiesModal]_vars

\* a progress event and then the completion event of a sourcing run
C4_Witness ==
    /\ OnWizard
    /\ streamedEventsByStep[0] =
           <<Stored(ThinkingEvent),
             Stored(CompletionEvent("analysis_complete", WithCompanies(1)))>>

\* C5: the results of all steps before the current step are present
C5_LinearGating ==
    OnWizard =>
        /\ currentStep >= 1 => filterResponse.present
        /\ currentStep >= 2 => screeningResponse.present
        /\ currentStep = 3 => riskAnalysisResponse.present

\* a socket fired error or close, an HTTP request failed, or a start handler
\* threw
FailureHandled ==
    \/ \E s \in SocketIds : \/ WizardOnError(s) \/ WizardOnClose(s)
                            \/ ParseOnError(s) \/ ParseOnClose(s)
    \/ Started(TRUE)
    \/ UploadDone(FALSE)
    \/ CapabilitiesFetched("failed")
    \/ fetchDashboardStats(FALSE)
    \/ \E outcome \in FetchOutcomes \ {"ok"} : sendMessage(outcome, JsUndefined)

\* C6: the handler of a socket error or close, of a failed HTTP request or of
\* a failed start creates no socket and issues no request; a socket is
\* created only by a start handler or by the upload the user asked for
C6_NoRetry ==
    [][/\ FailureHandled =>
            /\ created' = created
            /\ \A s \in SocketIds : sockets'[s].state = "open" => sockets'[s] = sockets[s]
            /\ \A r \in DOMAIN requests : requests'[r] <= requests[r]
       /\ created' # created => Started(FALSE) \/ UploadDone(TRUE)]_vars

\* the only socket the wizard created received an event and then failed
C6_Witness ==
    /\ OnWizard
    /\ created = 1
    /\ \A s \in SocketIds : sockets[s] = NoSocket
    /\ streamedEventsByStep[0] # <<>>
    /\ ~filterResponse.present
    /\ ~isSubmitting
    /\ notices = {"toast.error"}

\* C7: the handler that detects a socket error, a failed start, a failed
\* upload or a failed dashboard fetch raises a toast
C7_ErrorsRaiseToast ==
    [][(\/ \E s \in SocketIds : WizardOnError(s) \/ ParseOnError(s)
        \/ Started(TRUE)
        \/ UploadDone(FALSE)
        \/ fetchDashboardStats(FALSE))
           => notices' \cap {"toast", "toast.error"} # {}]_vars

StepResult(k) ==
    CASE k = 0 -> filterResponse
      [] k = 1 -> screeningResponse
      [] k = 2 -> riskAnalysisResponse
      [] k = 3 -> reportResponse

\* C8: handleResetStep(k) clears the result, the events and the completed flag
\* of every step from k on and the report's path, sets currentStep to k and
\* leaves result, events and completed flag of every step before k as they were
C8_ResetCascadesForward ==
    [][\A k \in 0..2 :
          handleResetStep(k) =>
              /\ currentStep' = k
              /\ reportFilePath' = NoPath
              /\ \A j \in Steps :
                    IF j >= k
                    THEN /\ StepResult(j)' = NULL
                         /\ streamedEventsByStep'[j] = <<>>
                         /\ j \notin completedSteps'
                    ELSE /\ StepResult(j)' = StepResult(j)
                         /\ streamedEventsByStep'[j] = streamedEventsByStep[j]
                         /\ (j \in completedSteps') = (j \in completedSteps)]_vars

\* step 1 was reset after a risk run had streamed: the sourcing result and its
\* events are still there
C8_Witness ==
    /\ OnWizard
    /\ currentStep = 1
    /\ completedSteps = {0}
    /\ filterResponse.present
    /\ streamedEventsByStep[0] # <<>>
    /\ streamedEventsByStep[2] = <<>>
    /\ lastProcessedStreamingCountByStep[2] > 0

\* C9: the aggregated items of the current step are the cleaned, non-empty
\* items of all its streamed events, in order
C9_AggregateMatchesStream ==
    OnWizard =>
        aggregatedThinkingByStep[currentStep]
            = NewEventData(streamedEventsByStep[currentStep])

Accepted(file) == file.type = "application/pdf" /\ file.size <= 10 * 1024 * 1024

\* C10: handleFileSelect selects a PDF of at most 10 MiB and clears
\* errors.file; for any other file it sets errors.file and leaves selectedFile
\* as it was; the selected file is always a PDF of at most 10 MiB
C10_FileValidation ==
    [][/\ \A file \in Files :
             handleFileSelect(file) =>
                 IF Accepted(file)
                 THEN selectedFile' = file /\ errors'.file = NoError
                 ELSE selectedFile' = selectedFile /\ errors'.file # NoError
       /\ selectedFile' # NoFile => Accepted(selectedFile')]_vars

\* a file of exactly 10 MiB is selected and a larger one was then rejected
C10_Witness ==
    /\ OnMandate
    /\ selectedFile = [type |-> "application/pdf", size |-> 10 * 1024 * 1024]
    /\ errors.file = "File size must be less than 10MB"

\* ---- C11
RowRendered == riskScores # JsUndefined

StatusNames == <<"status", "Status", "status_text">>

ReasonNames == <<"reason", "Reason", "reason_text">>

OverallNames ==
    <<"overall_result", "overallResult", "overall_status", "overallStatus",
      "overall">>

IsPresent(x) == x.t \notin {"undefined", "null"}

\* the first property of `names` whose value is Taken, '' when there is none
FirstOf(o, names, Taken(_)) ==
    LET hits == {i \in 1..Len(names) : Taken(Get(o, names[i]))}
    IN  IF hits = {}
        THEN Str("")
        ELSE Get(o, names[CHOOSE i \in hits : \A j \in hits : i <= j])

\* C11: a rendered row shows company.risk_scores itself when that is a
\* non-empty array; otherwise one {category, status, reason} entry per key of
\* parameter_analysis (or of parameterAnalysis), whose status and reason are
\* the first present of status / Status / status_text and of reason / Reason /
\* reason_text, '' when none is; [] for a null company.  Its overall value is
\* the first non-empty of overall_result, overallResult, overall_status,
\* overallStatus and overall, '' when none is set.
C11_RiskRow ==
    RowRendered =>
        /\ LET given == Get(company, "risk_scores")
               first == Get(company, "parameter_analysis")
               pa == IF Truthy(first) THEN first
                     ELSE Get(company, "parameterAnalysis")
               keys == Entries(pa)
           IN  IF company \in {JsNull, JsUndefined}
               THEN riskScores = Arr(<<>>)
               ELSE IF given.t = "array" /\ given.items # <<>>
               THEN riskScores = given
               ELSE /\ riskScores.t = "array"
                    /\ Len(riskScores.items) = Len(keys)
                    /\ \A i \in 1..Len(keys) :
                          riskScores.items[i] =
                              Obj(<<[k |-> "category", v |-> Str(keys[i].k)],
                                    [k |-> "status",
                                     v |-> FirstOf(keys[i].v, StatusNames,
                                                   IsPresent)],
                                    [k |-> "reason",
                                     v |-> FirstOf(keys[i].v, ReasonNames,
                                                   IsPresent)]>>)
        /\ overall = FirstOf(company, OverallNames, Truthy)

\* a row built from parameter_analysis whose status is an empty string next to
\* a Status and whose reason is found under the third name
C11_Witness ==
    /\ RowRendered
    /\ Get(company, "risk_scores") = JsUndefined
    /\ Len(riskScores.items) = 1
    /\ Get(Get(Get(company, "parameter_analysis"), "financial"), "status")
           = Str("")
    /\ Get(Get(Get(company, "parameter_analysis"), "financial"), "Status")
           = Str("b")
    /\ Get(riskScores.items[1], "status") = Str("")
    /\ Get(riskScores.items[1], "reason") = Str("f")
    /\ overall = Str("SAFE")

\* ---- C12
\* the precondition of starting the run of a step fails
PreconditionFails(step) ==
    CASE step = 0 -> selectedSourcingKeys = {}
      [] step = 1 -> selectedScreeningKeys = {} \/ getSelectedCompanyList = {}
      [] step = 2 -> \/ selectedRiskAnalysisKeys = {}
                     \/ ~(screeningResponse.details /\ screeningResponse.n > 0)
      [] step = 3 -> ~(riskAnalysisResponse.present /\ riskAnalysisResponse.n > 0)

StartHandler(step, thrown) ==
    CASE step = 0 -> handleSourceCompanies(thrown)
      [] step = 1 -> handleScreenCompanies(thrown)
      [] step = 2 -> handleAnalyzeRisk(thrown)
      [] step = 3 -> handleGenerateReport(thrown)

programState ==
    <<page, isSubmitting, showStreamingPanel, socketVars, wizardVars,
      mandateVars, otherPages>>

\* C13: currentStep is always one of 0, 1, 2, 3; nextStep increases it by
\* exactly one when canProceedStep() holds and currentStep < 3 and otherwise
\* changes nothing; prevStep decreases it by exactly one when currentStep > 0
\* and otherwise changes nothing.
C13_StepStaysInRange ==
    /\ [](currentStep \in Steps)
    /\ [][nextStep =>
            IF canProceedStep /\ currentStep < 3
            THEN currentStep' = currentStep + 1
            ELSE UNCHANGED programState]_vars
    /\ [][prevStep =>
            IF currentStep > 0
            THEN currentStep' = currentStep - 1
            ELSE UNCHANGED programState]_vars

\* the last step, entered by the Next button of the risk step
C13_Witness ==
    /\ OnWizard
    /\ currentStep = 3
    /\ showAccordionStep = 2
    /\ ~showStreamingPanel
    /\ notices = {}

\* ---- C14
Navigation == nextStep \/ prevStep \/ \E index \in Steps : headerClick(index)

IsPrefix(a, b) == Len(a) <= Len(b) /\ SubSeq(b, 1, Len(a)) = a

\* what a step of navigation keeps, and what its render does to the
\* aggregated thinking
StepDataKept ==
    /\ UNCHANGED <<page, isSubmitting, socketVars, completedSteps, resultVars,
                   selectionVars, streamedEventsByStep, mandateVars, otherPages>>
    /\ \A k \in Steps :
          IF k = currentStep'
          THEN IF streamedEventsByStep[k] = <<>>
               THEN aggregatedThinkingByStep'[k] = <<>>
               ELSE IsPrefix(aggregatedThinkingByStep[k],
                             aggregatedThinkingByStep'[k])
          ELSE /\ aggregatedThinkingByStep'[k] = aggregatedThinkingByStep[k]
               /\ lastProcessedStreamingCountByStep'[k]
                      = lastProcessedStreamingCountByStep[k]

C15_InvalidSubmitRejected ==
    [][formSubmit /\ (selectedFile = NoFile \/ Trim(description) = <<>>) =>
          /\ (selectedFile = NoFile) =>
                 errors'.file = "Please select a PDF file"
          /\ (Trim(description) = <<>>) =>
                 errors'.description = "Please provide a description"
          /\ UNCHANGED <<requests, showCapabilitiesModal, sockets, created,
                         isAnalyzing, isSubmitting, pendingSubmitData>>]_vars

\* a rejected submit of a form that has a file and a description of spaces
C15_Witness ==
    /\ OnMandate
    /\ selectedFile # NoFile
    /\ description = <<"sp">>
    /\ errors = [file |-> NoError, description |-> "Please provide a description"]
    /\ ~isAnalyzing
    /\ InFlight = 0
    /\ ~showCapabilitiesModal

\* ---- C16
\* C16: when the capabilities GET fails, handleSubmit goes on with the bundled
\* mock document as it does with the server's: the mock is stored as the
\* capabilities result, subprocesses and capabilityParams are extracted from
\* it, the capabilities modal opens and capabilitiesLoading becomes false; the
\* failure handling of the outer catch does not run.
C16_FailedFetchFallsBackToMock ==
    [][CapabilitiesFetched("failed") =>
          /\ capabilitiesResult' = mockCapabilities
          /\ subprocesses' = mockCapabilities
          /\ capabilityParams' = mockCapabilities
          /\ showCapabilitiesModal'
          /\ ~capabilitiesLoading'
          /\ notices' = {"toast"}
          /\ UNCHANGED <<isAnalyzing, pendingSubmitData, formVars>>]_vars

\* the modal open over the mock document after a failed GET
C16_Witness ==
    /\ OnMandate
    /\ showCapabilitiesModal
    /\ ~capabilitiesLoading
    /\ ~isAnalyzing
    /\ capabilitiesResult = mockCapabilities
    /\ subprocesses = mockCapabilities
    /\ capabilityParams = mockCapabilities
    /\ notices = {"toast"}
    /\ requests.fetching = 0

\* ---- C17
RECURSIVE Concatenated(_)
Concatenated(groups) ==
    IF groups = <<>> THEN <<>> ELSE Head(groups) \o Concatenated(Tail(groups))

\* C17: groupedThinking cuts aggregatedThinking into the maximal runs of
\* consecutive items with the same display type, a plain string counting as
\* 'Agent Thinking': the groups put end to end are the list in its order, no
\* group is empty, the items of a group share one display type and two
\* adjacent groups differ in display type.
C17_GroupsAreMaximalRuns ==
    /\ Concatenated(groupedThinking) = accordionThinking
    /\ \A g \in 1..Len(groupedThinking) :
          /\ groupedThinking[g] # <<>>
          /\ \A i \in 1..Len(groupedThinking[g]) :
                getEventType(groupedThinking[g][i])
                    = getEventType(groupedThinking[g][1])
    /\ \A g \in 1..(Len(groupedThinking) - 1) :
          getEventType(groupedThinking[g][1])
              # getEventType(groupedThinking[g + 1][1])

\* a plain string, an agent_thinking item and an item without a type in one
\* group, followed by a group of another type
C17_Witness ==
    /\ Len(accordionThinking) = 4
    /\ Len(groupedThinking) = 2
    /\ groupedThinking[1] = <<[content |-> <<"w">>],
                              [type |-> <<"a", "_", "t">>, content |-> <<"w">>],
                              [type |-> <<>>, content |-> <<"w">>]>>
    /\ getEventType(groupedThinking[2][1]) = <<"A", "t">>

\* ---- C18
\* C18: at most one group is expanded; whenever the number of groups changes
\* to n > 0 the last group, n - 1, becomes the expanded one; toggling a
\* collapsed group expands it and collapses the other, toggling the expanded
\* group collapses it; the expanded index is always null or the index of a
\* group that exists.
C18_ExpandedGroup ==
    /\ [](\/ expandedGroupIndex = -1
          \/ expandedGroupIndex \in 0..(Len(groupedThinking) - 1))
    /\ [][Len(groupedThinking') # Len(groupedThinking)
          /\ Len(groupedThinking') > 0 =>
              expandedGroupIndex' = Len(groupedThinking') - 1]_vars
    /\ [][\A groupIdx \in 0..(MaxItems - 1) :
              toggleGroupAccordion(groupIdx) =>
                  expandedGroupIndex' = IF expandedGroupIndex = groupIdx
                                        THEN -1 ELSE groupIdx]_vars

\* ---- C19
\* C19: sendMessage never rejects.  When the POST ends with a status that is
\* not OK, with a network error or with a body that is not JSON, its promise
\* resolves to {status: 'error', response: the apology}; when it ends with an
\* OK status and a JSON body, it resolves to that body unchanged.
C19_SendMessageAlwaysResolves ==
    [][\A outcome \in FetchOutcomes, body \in Bodies \cup {JsUndefined} :
          sendMessage(outcome, body) =>
              /\ ~settled'.rejected
              /\ outcome = "ok" => settled'.value = body
              /\ outcome # "ok" =>
                     /\ settled'.value.status = "error"
                     /\ settled'.value.response = Apology]_vars

\* a failed POST answered by the apology
C19_Witness ==
    /\ OnAgent
    /\ Len(messages) = 3
    /\ ~isLoading
    /\ requests.chat = 0
    /\ ~settled.rejected
    /\ settled.value = [response |-> Apology, status |-> "error"]
    /\ messages[3] = [role |-> "assistant", content |-> Apology]

\* ---- C20
Submits == agentHandleSubmit \/ agentFormSubmit

\* C20: handleSubmit of the chat does nothing when the query is blank after
\* trimming or while isLoading.  An accepted submit appends one user message
\* holding the trimmed query, and the answer to it appends one assistant
\* message with no message in between; isLoading is true exactly between the
\* two appends, and the answer does come.  After the greeting the transcript
\* alternates user, assistant.
C20_ChatAlternates ==
    /\ [][Submits /\ (Trim(query) = <<>> \/ isLoading) =>
              UNCHANGED <<agentVars, requests>>]_vars
    /\ [][Submits /\ ~(Trim(query) = <<>> \/ isLoading) =>
              /\ messages' = Append(messages, [role |-> "user",
                                               content |-> Trim(query)])
              /\ isLoading']_vars
    /\ [][messages' # messages /\ ~Submits =>
              /\ isLoading /\ ~isLoading'
              /\ Len(messages') = Len(messages) + 1
              /\ SubSeq(messages', 1, Len(messages)) = messages
              /\ messages'[Len(messages')].role = "assistant"]_vars
    /\ [](/\ messages[1] = Greeting
          /\ \A i \in 2..Len(messages) :
                messages[i].role = IF i % 2 = 0 THEN "user" ELSE "assistant"
          /\ isLoading <=> Len(messages) % 2 = 0
          /\ isLoading <=> requests.chat = 1)
    /\ (isLoading ~> ~isLoading)

\* two questions asked and answered
C20_Witness ==
    /\ OnAgent
    /\ Len(messages) = 5
    /\ ~isLoading
    /\ messages[2].role = "user"
    /\ messages[3].role = "assistant"
    /\ messages[4] = [role |-> "user", content |-> <<"w">>]
    /\ messages[5].role = "assistant"

\* ---- C21
\* C21: a step that handleResetStep cleared has no result, is not completed
\* and has an empty stream until a run of the step is started
C21_ClearedStaysCleared ==
    \A k \in cleared.steps :
        /\ ~StepResult(k).present
        /\ k \notin completedSteps
        /\ streamedEventsByStep[k] = <<>>

\* ---- C22
\* C22: while a socket of the wizard is open or closing, isSubmitting is true
C22_SubmittingWhileSocketOpen ==
    OnWizard =>
        \A s \in SocketIds : sockets[s].kind \in WizardKinds => isSubmitting

\* ---- C23
\* C23: every parse run of the mandate page ends: isSubmitting, once true,
\* becomes false again
C23_ParseRunEnds == (OnMandate /\ isSubmitting) ~> ~isSubmitting

\* ---- C24
\* C24: the result of every completed step of the wizard is present
C24_CompletedHasResult ==
    OnWizard => \A k \in completedSteps : StepResult(k).present

\* ---- C25
\* C25: on the mandate page isSubmitted implies that parsedResult is present,
\* and isSubmitting and isSubmitted are never both true
C25_SubmittedHasResult ==
    OnMandate =>
        /\ isSubmitted => parsedResult.present
        /\ ~(isSubmitting /\ isSubmitted)

\* the second run of the page has completed
C25_Witness ==
    /\ OnMandate
    /\ created = 2
    /\ isSubmitted
    /\ parsedResult.present
    /\ ~isSubmitting
====
